---- MODULE Spec2Model ----
(***************************************************************************)
(* Model of packages/hello-world-avs/operator/rust/crates/operator/src/    *)
(* spam_tasks.rs: the periodic task spammer.  main loads the .env file and *)
(* runs start_creating_tasks, which creates a tokio interval of 6 seconds  *)
(* and loops forever: await a tick, generate a random task name, log it,   *)
(* call create_new_task and discard its Result.                            *)
(*                                                                         *)
(* Time is counted in seconds since start_creating_tasks created the       *)
(* interval.  The task suspends at three await points only (interval.tick, *)
(* send, get_receipt); time advances at those points and nowhere else, the *)
(* synchronous code between them takes no whole second.                    *)
(***************************************************************************)
EXTENDS Integers, Sequences, FiniteSets, TLC

\* ---------------------------------------------------------------- bounds
\* The clock stops at MaxTime and the loop stops consuming ticks at MaxTicks.
MaxTime == 19
MaxTicks == 4
\* The same two bounds for the runs against a scripted endpoint, which are
\* followed for four periods and more.
ScenarioMaxTime == 25
ScenarioMaxTicks == 5

\* ------------------------------------------------------ program constants
\* Duration::from_secs(6), line 59.
Period == 6
\* rng.random_range(0..1000), line 29.
NumberRange == 1000

adjectives == <<"Quick", "Lazy", "Sleepy", "Noisy", "Hungry">>
nouns == <<"Fox", "Dog", "Cat", "Mouse", "Bear">>

\* The draws of the random generator the loop is explored with: the first
\* and the last index of each of the three ranges.
RngDraws == { <<0, 0, 0>>, <<Len(adjectives) - 1, Len(nouns) - 1, NumberRange - 1>> }

\* All the draws: random_range(0..adjectives.len()), random_range(0..nouns.len())
\* and random_range(0..1000), lines 27-29.
AllDraws ==
    (0..(Len(adjectives) - 1)) \X (0..(Len(nouns) - 1)) \X (0..(NumberRange - 1))

\* Transaction hashes a receipt may carry.
TxHashes == {"0xABC", "0xDEF"}

\* A LazyLock that has not run its closure yet.
Uninit == "<uninit>"
\* An environment variable that is not set.
Unset == "<unset>"

\* Values of RPC_URL and PRIVATE_KEY after dotenv: PRIVATE_KEY may be set to
\* a string that is no private key.
RpcValues == {Unset, "http://localhost:8545"}
KeyValues == {Unset, "not-a-key", "0xkey"}
ValidKeys == {"0xkey"}

VARIABLES
    pc,           \* position of the single task
    now,          \* seconds since the interval was created
    interval,     \* next deadline of the tokio Interval
    env,          \* process environment: [RPC_URL |-> ..., PRIVATE_KEY |-> ...]
    RPC_URL,      \* static LazyLock<String>
    KEY,          \* static LazyLock<String>
    random_name,  \* local of start_creating_tasks
    task_name,    \* parameter of create_new_task
    hw_data,      \* local of create_new_task: the deployment record
    tx,           \* local of create_new_task: the receipt
    steps,        \* statements of create_new_task the current invocation ran
    result,       \* value create_new_task returned last
    failure,      \* failure kind met by the current invocation
    panicMsg,     \* message of the panic that ended the process
    sink,         \* log/console output, in order
    ticks,        \* ticks consumed by the loop
    names,        \* calls of generate_random_name
    started,      \* invocations of create_new_task
    errs,         \* invocations that returned Err
    oks,          \* invocations that returned Ok
    outstanding,  \* invocations started and not yet resolved
    firstStart,   \* time of the first invocation, -1 before it
    rpcReads,     \* runs of the RPC_URL closure (env::var("RPC_URL"))
    keyReads,     \* runs of the KEY closure (env::var("PRIVATE_KEY"))
    deployReads   \* calls of get_anvil_swap_manager_deployment_data

vars == << pc, now, interval, env, RPC_URL, KEY, random_name, task_name,
           hw_data, tx, steps, result, failure, panicMsg, sink, ticks, names,
           started, errs, oks, outstanding, firstStart, rpcReads, keyReads,
           deployReads >>

\* Variables of the timer and the clock.
timeVars == << now, interval >>
\* Locals of create_new_task.
callVars == << task_name, hw_data, tx, steps >>
\* The two lazily initialised statics and the counts of their closures' runs.
lazyVars == << RPC_URL, KEY, rpcReads, keyReads >>
\* Counters of the loop.
loopCounts == << ticks, names >>

\* ------------------------------------------------------- pure functions

\* generate_random_name, for the three values the generator returned.
GenerateRandomNameFromOne(a, n, number) ==
    adjectives[a + 1] \o nouns[n + 1] \o ToString(number + 1)
GenerateRandomName(a, n, number) ==
    adjectives[a + 1] \o nouns[n + 1] \o ToString(number)

\* time::interval(period): the first deadline is the instant of creation.
IntervalStartDelayed(t, period) == t + period
IntervalStart(t, period) == t

\* Interval::tick with the default MissedTickBehavior::Burst: the next
\* deadline is one period after the deadline just met, however late the
\* tick was consumed.
NextTimeoutDelay(timeout, t, period) == t + period
NextTimeoutStuck(timeout, t, period) == timeout
NextTimeout(timeout, t, period) == timeout + period

\* LazyLock deref: the closure runs only while the cell is uninitialised.
InitialisesAlways(cell) == TRUE
Initialises(cell) == cell = Uninit

\* ------------------------------------------------------------- the program

Init ==
    /\ pc = "Main"
    /\ now = 0
    /\ interval = 0
    /\ env \in [RPC_URL : RpcValues, PRIVATE_KEY : KeyValues]
    /\ RPC_URL = Uninit
    /\ KEY = Uninit
    /\ random_name = ""
    /\ task_name = ""
    /\ hw_data = ""
    /\ tx = ""
    /\ steps = << >>
    /\ result = ""
    /\ failure = "none"
    /\ panicMsg = ""
    /\ sink = << >>
    /\ ticks = 0
    /\ names = 0
    /\ started = 0
    /\ errs = 0
    /\ oks = 0
    /\ outstanding = 0
    /\ firstStart = -1
    /\ rpcReads = 0
    /\ keyReads = 0
    /\ deployReads = 0

\* main, line 75: dotenv().ok() adds the variables of a .env file that the
\* environment does not set yet; a missing file is ignored.
Dotenv ==
    /\ pc = "Main"
    /\ \E file \in [RPC_URL : RpcValues, PRIVATE_KEY : KeyValues] :
         env' = [ k \in DOMAIN env |-> IF env[k] = Unset THEN file[k] ELSE env[k] ]
    /\ pc' = "Start"
    /\ UNCHANGED << timeVars, lazyVars, callVars, loopCounts, random_name,
                    result, failure, panicMsg, sink, started, errs, oks,
                    outstanding, firstStart, deployReads >>

\* start_creating_tasks, lines 59-60: the interval is created and the logger
\* initialised; the loop is entered.
StartCreatingTasks ==
    /\ pc = "Start"
    /\ interval' = IntervalStart(now, Period)
    /\ pc' = "Idle"
    /\ UNCHANGED << now, env, lazyVars, callVars, loopCounts, random_name,
                    result, failure, panicMsg, sink, started, errs, oks,
                    outstanding, firstStart, deployReads >>

\* One second passes while the task is suspended: in interval.tick() before
\* the deadline, or in send / get_receipt.  The clock stops at limit.
AdvanceToWithTimeout(limit) ==
    /\ now < limit
    /\ now' = now + 1
    /\ \/ /\ pc = "Idle" /\ now < interval
          /\ UNCHANGED << pc, result, failure, errs, outstanding >>
       \/ /\ pc \in {"Send", "Receipt"} /\ now' < interval
          /\ UNCHANGED << pc, result, failure, errs, outstanding >>
       \/ /\ pc \in {"Send", "Receipt"} /\ now' >= interval
          /\ failure' = "timeout"
          /\ result' = "Err"
          /\ errs' = errs + 1
          /\ outstanding' = outstanding - 1
          /\ pc' = "Returned"
    /\ UNCHANGED << interval, env, lazyVars, callVars, loopCounts,
                    random_name, panicMsg, sink, started, oks, firstStart,
                    deployReads >>
AdvanceTo(limit) ==
    /\ now < limit
    /\ \/ pc = "Idle" /\ now < interval
       \/ pc \in {"Send", "Receipt"}
    /\ now' = now + 1
    /\ UNCHANGED << pc, interval, env, lazyVars, callVars, loopCounts,
                    random_name, result, failure, panicMsg, sink, started,
                    errs, oks, outstanding, firstStart, deployReads >>

Advance == AdvanceTo(MaxTime)

\* interval.tick().await, line 62: completes as soon as the deadline is met.
\* The loop consumes at most limit ticks.
TickUpTo(limit) ==
    /\ pc = "Idle"
    /\ now >= interval
    /\ ticks < limit
    /\ interval' = NextTimeout(interval, now, Period)
    /\ ticks' = ticks + 1
    /\ pc' = "Ticked"
    /\ UNCHANGED << now, env, lazyVars, callVars, names, random_name, result,
                    failure, panicMsg, sink, started, errs, oks, outstanding,
                    firstStart, deployReads >>

Tick == TickUpTo(MaxTicks)

\* let random_name = generate_random_name(), line 63, the generator
\* returning one of draws.
GenerateNameFrom(draws) ==
    /\ pc = "Ticked"
    /\ \E d \in draws : random_name' = GenerateRandomName(d[1], d[2], d[3])
    /\ names' = names + 1
    /\ pc' = "Named"
    /\ UNCHANGED << timeVars, env, lazyVars, callVars, ticks, result, failure,
                    panicMsg, sink, started, errs, oks, outstanding,
                    firstStart, deployReads >>

GenerateName == GenerateNameFrom(RngDraws)

\* get_logger().info(...), lines 64-67.
LogNameFresh ==
    /\ pc = "Named"
    /\ \E d \in RngDraws :
         sink' = Append(sink, << "info", GenerateRandomName(d[1], d[2], d[3]) >>)
    /\ pc' = "Logged"
    /\ UNCHANGED << timeVars, env, lazyVars, callVars, loopCounts, random_name,
                    result, failure, panicMsg, started, errs, oks, outstanding,
                    firstStart, deployReads >>
LogName ==
    /\ pc = "Named"
    /\ sink' = Append(sink, << "info", random_name >>)
    /\ pc' = "Logged"
    /\ UNCHANGED << timeVars, env, lazyVars, callVars, loopCounts, random_name,
                    result, failure, panicMsg, started, errs, oks, outstanding,
                    firstStart, deployReads >>

\* create_new_task(&RPC_URL, &random_name), line 68: the argument &RPC_URL
\* dereferences the LazyLock, whose closure (line 15) panics when RPC_URL is
\* not set; otherwise the call starts.
CallSpawned ==
    /\ pc = "Logged"
    /\ env.RPC_URL # Unset
    /\ RPC_URL' = env.RPC_URL
    /\ rpcReads' = rpcReads + 1
    /\ task_name' = random_name
    /\ started' = started + 1
    /\ outstanding' = outstanding + 1
    /\ firstStart' = IF started = 0 THEN now ELSE firstStart
    /\ failure' = "none"
    /\ steps' = << >>
    /\ pc' = "Idle"
    /\ UNCHANGED << timeVars, env, KEY, keyReads, hw_data, tx, loopCounts,
                    random_name, result, panicMsg, sink, errs, oks, deployReads >>
CallCreateNewTask ==
    /\ pc = "Logged"
    /\ IF Initialises(RPC_URL)
         THEN /\ rpcReads' = rpcReads + 1
              /\ IF env.RPC_URL = Unset
                   THEN /\ pc' = "Panicked"
                        /\ panicMsg' = "failed to retrieve RPC URL"
                        /\ UNCHANGED << RPC_URL, task_name, started,
                                        outstanding, firstStart, failure,
                                        steps >>
                   ELSE /\ RPC_URL' = env.RPC_URL
                        /\ task_name' = random_name
                        /\ started' = started + 1
                        /\ outstanding' = outstanding + 1
                        /\ firstStart' = IF started = 0 THEN now ELSE firstStart
                        /\ failure' = "none"
                        /\ steps' = << >>
                        /\ pc' = "Resolve"
                        /\ UNCHANGED panicMsg
         ELSE /\ task_name' = random_name
              /\ started' = started + 1
              /\ outstanding' = outstanding + 1
              /\ firstStart' = IF started = 0 THEN now ELSE firstStart
              /\ failure' = "none"
              /\ steps' = << >>
              /\ pc' = "Resolve"
              /\ UNCHANGED << RPC_URL, rpcReads, panicMsg >>
    /\ UNCHANGED << timeVars, env, KEY, keyReads, hw_data, tx, loopCounts,
                    random_name, result, sink, errs, oks, deployReads >>

\* The ? operator inside create_new_task: the invocation ends by returning
\* the error to its caller.
ReturnErr(kind) ==
    /\ failure' = kind
    /\ result' = "Err"
    /\ errs' = errs + 1
    /\ outstanding' = outstanding - 1
    /\ pc' = "Returned"

\* get_anvil_swap_manager_deployment_data()?, line 36: the record is read on
\* every invocation; it may be unavailable, or carry an address that does
\* not parse.
Resolve ==
    /\ pc = "Resolve"
    /\ deployReads' = deployReads + 1
    /\ steps' = Append(steps, "resolve")
    /\ \/ /\ ReturnErr("unresolvable")
          /\ UNCHANGED hw_data
       \/ /\ \E a \in {"0xServiceManager", "malformed"} : hw_data' = a
          /\ pc' = "Parse"
          /\ UNCHANGED << result, failure, errs, outstanding >>
    /\ UNCHANGED << timeVars, env, lazyVars, task_name, tx, loopCounts,
                    random_name, panicMsg, sink, started, oks, firstStart >>

\* hw_data.addresses.swap_manager_service_manager.parse()?, lines 37-38.
ParseAddress ==
    /\ pc = "Parse"
    /\ steps' = Append(steps, "parse")
    /\ IF hw_data = "malformed"
         THEN ReturnErr("malformed_address")
         ELSE /\ pc' = "Signer"
              /\ UNCHANGED << result, failure, errs, outstanding >>
    /\ UNCHANGED << timeVars, env, lazyVars, task_name, hw_data, tx,
                    loopCounts, random_name, panicMsg, sink, started, oks,
                    firstStart, deployReads >>

\* get_signer(&KEY.clone(), rpc_url), lines 39-40: KEY is dereferenced, its
\* closure (line 18) panics when PRIVATE_KEY is not set; get_signer returns
\* no Result, it panics on a string that is no private key.
GetSigner ==
    /\ pc = "Signer"
    /\ steps' = Append(steps, "signer")
    /\ LET key == IF Initialises(KEY) THEN env.PRIVATE_KEY ELSE KEY IN
         /\ keyReads' = keyReads + (IF Initialises(KEY) THEN 1 ELSE 0)
         /\ IF key = Unset
              THEN /\ pc' = "Panicked"
                   /\ panicMsg' = "failed to retrieve private key"
                   /\ UNCHANGED << KEY, failure >>
              ELSE /\ KEY' = key
                   /\ IF key \in ValidKeys
                        THEN /\ pc' = "Send"
                             /\ UNCHANGED << panicMsg, failure >>
                        ELSE /\ pc' = "Panicked"
                             /\ panicMsg' = "wrong key"
                             /\ failure' = "invalid_secret"
    /\ UNCHANGED << timeVars, env, RPC_URL, rpcReads, task_name, hw_data,
                    tx, loopCounts, random_name, result, sink, started, errs,
                    oks, outstanding, firstStart, deployReads >>

\* createNewTask(task_name).send().await?, lines 42-45: the endpoint accepts
\* the transaction or the call fails.
SendIgnoringError ==
    /\ pc = "Send"
    /\ steps' = Append(steps, "send")
    /\ pc' = "Receipt"
    /\ \E f \in {"none", "network"} : failure' = f
    /\ UNCHANGED << timeVars, env, lazyVars, task_name, hw_data, tx,
                    loopCounts, random_name, result, errs, outstanding,
                    panicMsg, sink, started, oks, firstStart, deployReads >>
SendReporting ==
    /\ pc = "Send"
    /\ steps' = Append(steps, "send")
    /\ \/ /\ ReturnErr("network")
          /\ UNCHANGED sink
       \/ /\ pc' = "Receipt"
          /\ sink' = Append(sink, << "tx", tx >>)
          /\ UNCHANGED << result, failure, errs, outstanding >>
    /\ UNCHANGED << timeVars, env, lazyVars, task_name, hw_data, tx,
                    loopCounts, random_name, panicMsg, started, oks,
                    firstStart, deployReads >>
Send ==
    /\ pc = "Send"
    /\ steps' = Append(steps, "send")
    /\ \/ ReturnErr("network")
       \/ /\ pc' = "Receipt"
          /\ UNCHANGED << result, failure, errs, outstanding >>
    /\ UNCHANGED << timeVars, env, lazyVars, task_name, hw_data, tx,
                    loopCounts, random_name, panicMsg, sink, started, oks,
                    firstStart, deployReads >>

\* get_receipt().await?, lines 46-47: no receipt is obtained (the transaction
\* was dropped), or the receipt of the included transaction is returned; the
\* receipt of a reverted transaction is a receipt like any other.
GetReceipt ==
    /\ pc = "Receipt"
    /\ steps' = Append(steps, "receipt")
    /\ \/ /\ ReturnErr("dropped")
          /\ UNCHANGED tx
       \/ /\ \E h \in TxHashes, reverted \in BOOLEAN :
               /\ tx' = h
               /\ failure' = IF reverted THEN "reverted" ELSE "none"
          /\ pc' = "Print"
          /\ UNCHANGED << result, errs, outstanding >>
    /\ UNCHANGED << timeVars, env, lazyVars, task_name, hw_data, loopCounts,
                    random_name, panicMsg, sink, started, oks, firstStart,
                    deployReads >>

\* println!("Transaction successfull with tx : {:?}", tx.transaction_hash)
\* and Ok(()), lines 49-54.
PrintTx ==
    /\ pc = "Print"
    /\ sink' = Append(sink, << "tx", tx >>)
    /\ steps' = Append(steps, "print")
    /\ result' = "Ok"
    /\ oks' = oks + 1
    /\ outstanding' = outstanding - 1
    /\ pc' = "Returned"
    /\ UNCHANGED << timeVars, env, lazyVars, task_name, hw_data, tx,
                    loopCounts, random_name, failure, panicMsg, started, errs,
                    firstStart, deployReads >>

\* let _ = create_new_task(...).await, line 68: the Result is dropped,
\* whatever it is, and the loop goes back to interval.tick().
DiscardBackoff ==
    /\ pc = "Returned"
    /\ pc' = "Idle"
    /\ interval' = IF result = "Err" THEN interval + Period ELSE interval
    /\ UNCHANGED << now, env, lazyVars, callVars, loopCounts,
                    random_name, result, failure, panicMsg, sink, started,
                    errs, oks, outstanding, firstStart, deployReads >>
DiscardPropagating ==
    /\ pc = "Returned"
    /\ pc' = IF result = "Err" THEN "Exited" ELSE "Idle"
    /\ UNCHANGED << timeVars, env, lazyVars, callVars, loopCounts,
                    random_name, result, failure, panicMsg, sink, started,
                    errs, oks, outstanding, firstStart, deployReads >>
DiscardResult ==
    /\ pc = "Returned"
    /\ pc' = "Idle"
    /\ UNCHANGED << timeVars, env, lazyVars, callVars, loopCounts,
                    random_name, result, failure, panicMsg, sink, started,
                    errs, oks, outstanding, firstStart, deployReads >>

Next ==
    \/ Dotenv
    \/ StartCreatingTasks
    \/ Advance
    \/ Tick
    \/ GenerateName
    \/ LogName
    \/ CallCreateNewTask
    \/ Resolve
    \/ ParseAddress
    \/ GetSigner
    \/ Send
    \/ GetReceipt
    \/ PrintTx
    \/ DiscardResult

Spec == Init /\ [][Next]_vars

\* The runtime keeps polling the task and every await that can complete
\* does: the timer fires and a submission in flight resolves.
FairSpec == Spec /\ WF_vars(Next)

\* ------------------------------------- runs against a scripted endpoint

\* An environment that sets both variables, PRIVATE_KEY to a private key.
ValidEnv == [RPC_URL |-> "http://localhost:8545", PRIVATE_KEY |-> "0xkey"]

ScenarioInit == Init /\ env = ValidEnv

\* The loop waits for its next tick; the clock runs to ScenarioMaxTime.
WaitForTick == AdvanceTo(ScenarioMaxTime) /\ pc = "Idle"

ScenarioTick == TickUpTo(ScenarioMaxTicks)

\* The deployment record is there and its address parses.
ResolveOk == Resolve /\ pc' = "Parse" /\ hw_data' = "0xServiceManager"

\* The endpoint accepts the transaction at once.
SendOk == Send /\ pc' = "Receipt"

\* The endpoint returns at once the receipt of the included transaction,
\* with hash 0xABC.
ReceiptABC == GetReceipt /\ pc' = "Print" /\ tx' = "0xABC" /\ failure' = "none"

\* The program with an endpoint that always succeeds, instantaneously, with
\* the identifier 0xABC.
AlwaysSucceedsNext ==
    \/ Dotenv
    \/ StartCreatingTasks
    \/ WaitForTick
    \/ ScenarioTick
    \/ GenerateName
    \/ LogName
    \/ CallCreateNewTask
    \/ ResolveOk
    \/ ParseAddress
    \/ GetSigner
    \/ SendOk
    \/ ReceiptABC
    \/ PrintTx
    \/ DiscardResult

AlwaysSucceedsSpec == ScenarioInit /\ [][AlwaysSucceedsNext]_vars

\* The endpoint refuses the transaction at once: send fails.
SendFails == Send /\ pc' = "Returned"

\* The program with an endpoint whose submissions alternately succeed and
\* fail, the first one succeeding; every answer is instantaneous.
AlternatingNext ==
    \/ Dotenv
    \/ StartCreatingTasks
    \/ WaitForTick
    \/ ScenarioTick
    \/ GenerateName
    \/ LogName
    \/ CallCreateNewTask
    \/ ResolveOk
    \/ ParseAddress
    \/ GetSigner
    \/ (started % 2 = 1 /\ SendOk)
    \/ (started % 2 = 0 /\ SendFails)
    \/ ReceiptABC
    \/ PrintTx
    \/ DiscardResult

AlternatingSpec == ScenarioInit /\ [][AlternatingNext]_vars

\* -------------------------------------------- the name generator alone

\* generate_random_name with every draw the generator can return.
GenerateAnyName == GenerateNameFrom(AllDraws)

\* The program up to the first call of generate_random_name.
NameNext ==
    \/ Dotenv
    \/ StartCreatingTasks
    \/ Tick
    \/ GenerateAnyName

NameSpec == ScenarioInit /\ [][NameNext]_vars

\* ------------------------------------------------- a remote call that hangs

\* The program with an endpoint that accepts transactions and then never
\* answers get_receipt.
HungNext ==
    \/ Dotenv
    \/ StartCreatingTasks
    \/ Advance
    \/ Tick
    \/ GenerateName
    \/ LogName
    \/ CallCreateNewTask
    \/ Resolve
    \/ ParseAddress
    \/ GetSigner
    \/ SendOk
    \/ DiscardResult

HungSpec == Init /\ [][HungNext]_vars

\* ------------------------------------------------------------ properties

\* Positions of the task inside one dispatch cycle: past the tick and not
\* yet back at interval.tick().
InCycle == {"Ticked", "Named", "Logged", "Resolve", "Parse", "Signer",
            "Send", "Receipt", "Print", "Returned"}

\* Positions inside create_new_task.
InCall == {"Resolve", "Parse", "Signer", "Send", "Receipt", "Print"}

\* Panics of the two closures that read the configuration.
ConfigPanics == {"failed to retrieve RPC URL", "failed to retrieve private key"}

\* Number of entries of the sink that report an error.
ErrorReports == Cardinality({ i \in DOMAIN sink : sink[i][1] = "error" })

\* C1: failure isolation. When create_new_task has returned an error the
\* loop does not exit and the process goes on: the next step of the task
\* takes it back to interval.tick(), and from there (as long as the bounds
\* of the model leave room for one more tick) a further invocation of
\* create_new_task starts.
C1_FailureIsolation ==
    /\ [][(pc = "Returned" /\ result = "Err") => pc' = "Idle"]_vars
    /\ \A n \in 1..(MaxTicks - 1) :
         (pc = "Returned" /\ result = "Err" /\ started = n /\ ticks = n
            /\ interval <= MaxTime)
           ~> (started = n + 1 /\ pc = "Resolve")

\* A second invocation is under way right after one that returned an error.
C1_Witness ==
    /\ pc = "Resolve"
    /\ result = "Err"
    /\ errs >= 1
    /\ started = errs + oks + 1

\* C2: submissions are strictly sequential. At most one invocation of
\* create_new_task is outstanding, and none is while the loop is between
\* interval.tick() and the next call.
C2_StrictlySequential ==
    /\ outstanding \in {0, 1}
    /\ pc \in {"Idle", "Ticked", "Named", "Logged", "Returned"} => outstanding = 0
    /\ pc \in InCall => outstanding = 1
    /\ started = oks + errs + outstanding

\* A submission is still in flight when the deadline of the next tick has
\* passed.
C2_Witness ==
    /\ pc = "Receipt"
    /\ outstanding = 1
    /\ now > interval

C4_MissedTicksDropped == pc = "Ticked" => interval > now

\* C4 amended: missed ticks are kept and caught up. The deadlines stay at
\* the multiples of the period, and whenever the loop has to wait in
\* interval.tick() it has consumed one tick for every tick instant that has
\* passed, the missed ones included.
C4_MissedTicksCaughtUp ==
    /\ pc # "Main" /\ pc # "Start" => interval = Period * ticks
    /\ (pc = "Idle" /\ now < interval) => ticks = (now \div Period) + 1

\* A tick was consumed late and the one after it is due already: the two
\* dispatches are back to back.
C4_Witness == pc = "Ticked" /\ ticks >= 2 /\ now >= interval

C6_OneDispatchPerTick ==
    pc \notin InCycle => (names = ticks /\ started = ticks /\ oks + errs = started)

\* C7: every failed submission is reported. Once the loop is done with a
\* result, the sink holds one error report for every Err returned.
C7_FailuresReported == pc # "Returned" => ErrorReports = errs

\* C8: every failure kind of the Submission Client makes create_new_task
\* return Err: none ends the process and none ends with the success report.
C8_FailuresReturnErr ==
    /\ pc = "Panicked" => failure = "none"
    /\ (pc = "Returned" /\ failure # "none") =>
         (result = "Err" /\ sink[Len(sink)][1] # "tx")

C10_ConfigFatalOnlyAtStartup ==
    /\ (pc = "Panicked" /\ panicMsg \in ConfigPanics) =>
         (ticks = 0 /\ names = 0 /\ sink = << >>)
    /\ (pc # "Main" /\ (env.RPC_URL = Unset \/ env.PRIVATE_KEY = Unset)) =>
         ticks = 0

\* Entries of the sink that report a transaction, in order.
TxReports == SelectSeq(sink, LAMBDA e : e[1] = "tx")

\* C11: a successful invocation reports exactly one transaction identifier,
\* the hash of the receipt it obtained, and only once it has the receipt:
\* the sink holds one report per invocation that returned Ok, none for an
\* invocation still in send or get_receipt, and the report of an invocation
\* that has just returned Ok is the last entry and carries the hash of its
\* receipt.
C11_ReportsReceiptHash ==
    /\ Len(TxReports) = oks
    /\ (pc = "Returned" /\ result = "Ok") =>
         /\ steps = << "resolve", "parse", "signer", "send", "receipt", "print" >>
         /\ tx \in TxHashes
         /\ sink[Len(sink)] = << "tx", tx >>
    /\ pc \in {"Send", "Receipt", "Print"} => sink[Len(sink)][1] = "info"

\* A second successful invocation has reported the hash of its own receipt,
\* which differs from the one reported before.
C11_Witness ==
    /\ pc = "Returned"
    /\ result = "Ok"
    /\ oks = 2
    /\ TxReports = << << "tx", "0xABC" >>, << "tx", "0xDEF" >> >>

\* The loop is suspended in interval.tick(), the deadline lies ahead.
Waiting == pc = "Idle" /\ now < interval

\* n reports of the transaction identifier 0xABC.
ReportsABC(n) == [ i \in 1..n |-> << "tx", "0xABC" >> ]

OutcomeKinds ==
    LET reports == SelectSeq(sink, LAMBDA e : e[1] # "info")
    IN  [ i \in 1..Len(reports) |-> reports[i][1] ]

\* C13: with an endpoint that alternately succeeds and fails, after 4
\* periods the sink holds exactly 2 success reports and 2 failure reports,
\* in the order of their ticks, and the loop is waiting for the next tick.
C13_TwoAndTwoAfterFourPeriods ==
    /\ (Waiting /\ 4 * Period <= now /\ now < 5 * Period) =>
          OutcomeKinds = << "tx", "error", "tx", "error" >>
    /\ pc \in {"Main", "Start", "Idle"} \cup InCycle

\* The two word sets and the digits of the pattern <Adjective><Noun><N>.
PatternAdjectives == {"Quick", "Lazy", "Sleepy", "Noisy", "Hungry"}
PatternNouns == {"Fox", "Dog", "Cat", "Mouse", "Bear"}
Digits == {"0", "1", "2", "3", "4", "5", "6", "7", "8", "9"}

\* t is the decimal form of an integer N with 0 <= N < 1000: one to three
\* digits, the first of which is 0 only when it is the only one.
IsDecimalBelowThousand(t) ==
    /\ Len(t) \in 1..3
    /\ \A i \in 1..Len(t) : SubSeq(t, i, i) \in Digits
    /\ Len(t) > 1 => SubSeq(t, 1, 1) # "0"

\* s is an adjective, a noun and such a decimal, without separators.
MatchesPattern(s) ==
    \E adj \in PatternAdjectives, noun \in PatternNouns :
        LET words == adj \o noun IN
        /\ Len(s) > Len(words)
        /\ SubSeq(s, 1, Len(words)) = words
        /\ IsDecimalBelowThousand(SubSeq(s, Len(words) + 1, Len(s)))

\* C14: every name generate_random_name returns matches the pattern, and
\* the names it can return are 5 * 5 * 1000 different strings, one for each
\* combination of adjective, noun and number.
C14_NamePattern ==
    /\ pc = "Named" => MatchesPattern(random_name)
    /\ pc = "Ticked" =>
         Cardinality({ GenerateRandomName(d[1], d[2], d[3]) : d \in AllDraws })
           = 5 * 5 * 1000
    /\ Cardinality(PatternAdjectives) = 5 /\ Cardinality(PatternNouns) = 5
    /\ { adjectives[i] : i \in DOMAIN adjectives } = PatternAdjectives
    /\ { nouns[i] : i \in DOMAIN nouns } = PatternNouns

\* The generator has returned the name of the last adjective, the last noun
\* and the largest number.
C14_Witness == pc = "Named" /\ random_name = "HungryBear999"

\* C15: the loop puts no timeout on a submission. While the remote call of
\* an invocation is pending, every step leaves the invocation pending and
\* the loop in that same cycle: no tick is consumed, no name generated and
\* no invocation started, however far the clock runs.
C15_HungCallStallsLoop ==
    [][(pc \in {"Send", "Receipt"}) =>
         (/\ pc' \in {"Send", "Receipt"}
          /\ ticks' = ticks /\ names' = names /\ started' = started
          /\ outstanding' = 1 /\ interval' = interval)]_vars

\* An invocation has been waiting for its receipt while three deadlines of
\* the timer went by.
C15_Witness ==
    /\ pc = "Receipt"
    /\ now >= interval + 2 * Period
    /\ started = ticks

\* RPC_URL and PRIVATE_KEY are both set.
ConfigPresent == env.RPC_URL # Unset /\ env.PRIVATE_KEY # Unset

\* Every invocation of create_new_task eventually returns, Ok or Err.
EverySubmissionResolves == [](pc \in InCall => <>(pc = "Returned"))

\* C16: continuous operation. With the configuration present, the timer
\* ticking and every submission resolving, whatever the outcomes so far
\* the loop consumes its next tick and dispatches again (as long as the
\* bounds of the model leave room for that tick).
C16_ContinuousOperation ==
    EverySubmissionResolves =>
        \A n \in 0..(MaxTicks - 1) :
            (ConfigPresent /\ pc # "Main" /\ ticks = n /\ interval <= MaxTime)
              ~> (ticks = n + 1 /\ pc = "Ticked")

\* A further dispatch begins after cycles of both outcomes.
C16_Witness == pc = "Ticked" /\ ticks >= 3 /\ errs >= 1 /\ oks >= 1

\* C17: a resolution failure is handled like a network failure: once the
\* loop is back in interval.tick() after a cycle that failed in resolution,
\* address parsing or send, the error of that cycle has been reported, it
\* is the last entry of the sink.
C17_ResolutionLikeNetworkFailure ==
    (pc = "Idle" /\ result = "Err"
       /\ failure \in {"unresolvable", "malformed_address", "network"})
      => sink[Len(sink)][1] = "error"

\* C18: no backoff, nothing carried over. The deadlines are the multiples
\* of the period whatever the outcomes were; a returned Result, Ok or Err,
\* only takes the loop back to interval.tick(), leaving clock, deadline and
\* the two statics as they are; a tick is consumed as soon as its instant
\* is reached and the loop waits only for an instant that lies ahead.
C18_NoBackoff ==
    /\ [](pc \notin {"Main", "Start"} => interval = Period * ticks)
    /\ [][(pc = "Returned") =>
            (pc' = "Idle" /\ now' = now /\ interval' = interval
               /\ RPC_URL' = RPC_URL /\ KEY' = KEY /\ ticks' = ticks)]_vars
    /\ [][(ticks' = ticks + 1) => (now' = now /\ now >= Period * ticks)]_vars
    /\ [][(pc = "Idle" /\ now' > now) => now < Period * ticks]_vars

\* The dispatch that follows a failed submission begins exactly at the next
\* tick instant.
C18_Witness ==
    /\ pc = "Ticked"
    /\ result = "Err"
    /\ ticks = 2
    /\ now = Period

\* The statements of create_new_task in the order of the source.
StepOrder == << "resolve", "parse", "signer", "send", "receipt", "print" >>

\* C19: the statements of create_new_task run in the order resolve, parse,
\* signer (which reads the secret), send, receipt, print, and a failing one
\* ends the invocation: after a failed resolution only resolve has run,
\* after a failed parse only resolve and parse (the secret was not read,
\* nothing was sent), after a failed send no receipt was awaited and the
\* last entry of the sink is still the log entry of the cycle.
C19_StepOrder ==
    /\ Len(steps) <= Len(StepOrder)
    /\ steps = SubSeq(StepOrder, 1, Len(steps))
    /\ failure \in {"unresolvable", "malformed_address", "network", "dropped"}
         => (pc \notin InCall /\ result = "Err")
    /\ failure = "unresolvable" => steps = SubSeq(StepOrder, 1, 1)
    /\ failure = "malformed_address" => steps = SubSeq(StepOrder, 1, 2)
    /\ failure = "network" =>
         (steps = SubSeq(StepOrder, 1, 4) /\ sink[Len(sink)][1] = "info")
    /\ failure = "dropped" =>
         (steps = SubSeq(StepOrder, 1, 5) /\ sink[Len(sink)][1] = "info")
    /\ (started = 1 /\ failure \in {"unresolvable", "malformed_address"})
         => (keyReads = 0 /\ KEY = Uninit)
    /\ pc \in {"Resolve", "Parse", "Signer"} => Len(steps) < 3

\* An invocation has failed in address parsing: two statements ran and the
\* secret has not been read.
C19_Witness ==
    /\ pc = "Returned"
    /\ failure = "malformed_address"
    /\ steps = << "resolve", "parse" >>
    /\ KEY = Uninit

\* Entries of the sink written by the 'Creating new task with name' log
\* statement, in order.
InfoReports == SelectSeq(sink, LAMBDA e : e[1] = "info")

\* C20: the name logged in a cycle is the name passed to create_new_task
\* in that cycle, it is logged before the invocation starts, and there is
\* one log entry per invocation, the counts differing by at most the entry
\* of the cycle in progress.
C20_LoggedNameIsSubmitted ==
    /\ Len(InfoReports) = (IF pc = "Named" THEN names - 1 ELSE names)
    /\ started <= Len(InfoReports) /\ Len(InfoReports) <= started + 1
    /\ pc = "Logged" =>
         (Len(InfoReports) = started + 1 /\ sink[Len(sink)] = << "info", random_name >>)
    /\ pc \in InCall => sink[Len(sink)] = << "info", task_name >>
    /\ started >= 1 => InfoReports[started] = << "info", task_name >>

\* The second invocation runs with the second name logged, which differs
\* from the first.
C20_Witness ==
    /\ pc = "Send"
    /\ started = 2
    /\ task_name = "HungryBear999"
    /\ InfoReports = << << "info", "QuickFox0" >>, << "info", "HungryBear999" >> >>

====
